---- MODULE Spec2Model ----
(***************************************************************************)
(* QuantCrux front end: the authenticated API client (axios instance with  *)
(* request/response interceptors, src/services/authService.ts), the other  *)
(* service modules' clients, and the session holder (AuthProvider).        *)
(*                                                                         *)
(* JavaScript runs one task at a time: everything between two network      *)
(* awaits is one atomic action.  A call is one invocation of an operation  *)
(* (login, logout, a service fetch ...); it owns a stack of request        *)
(* configs: the bottom one is the operation's request, each one above it   *)
(* is the POST /auth/refresh issued by authService.refreshToken() that the *)
(* response interceptor of the config below awaits.  Only the top config   *)
(* is on the wire.                                                         *)
(*                                                                         *)
(* Specifications: Spec (one pending operation), SpecConc (operations      *)
(* overlap), SpecSession (the session holder's operations, refreshToken    *)
(* included), SpecLive (Spec with fairness and the refresh chain followed  *)
(* beyond MaxDepth), SpecBurst (overlapping operations of the intercepted  *)
(* client, refresh chains one deep), SpecPages (the fetches of             *)
(* BacktestsPage and MarketDataPage in an authenticated session),          *)
(* SpecPolling (the interval timers of BacktestResultsPage, BacktestsPage  *)
(* and TradeDeskPage).                                                     *)
(***************************************************************************)
EXTENDS Integers, Sequences, FiniteSets, TLC

VARIABLES storage, user, loading, href, started, calls, issued, ev,
          backtests, liveData, task, poll

vars ==
    <<storage, user, loading, href, started, calls, issued, ev,
      backtests, liveData, task, poll>>

\* the state of the pages
pageVars == <<backtests, liveData, task, poll>>

\* the state of the session and of the requests of its client
sessionVars == <<storage, user, loading, href, started, calls, issued, ev>>

-----------------------------------------------------------------------------
(* Bounds *)

MaxCalls == 1

MaxConc == 2

MaxDepth == 3

MaxIssued == 2

\* poll requests of the results page in flight at a time
MaxInFlight == 2

-----------------------------------------------------------------------------
(* Values *)

Null == <<>>

AccessTok(k) == <<"access", k>>

RefreshTok(k) == <<"refresh", k>>

TokenPair(k) == [accessToken |-> AccessTok(k), refreshToken |-> RefreshTok(k)]

Accounts == {"alice", "bob"}

RoleOf(a) == IF a = "alice" THEN "ADMIN" ELSE "CLIENT"

\* user === null
NoUser ==
    [id |-> Null, username |-> Null, email |-> Null, fullName |-> Null, role |-> Null]

\* interface User, as GET /auth/profile returns it
User(a) ==
    [id |-> <<"id", a>>, username |-> <<"username", a>>, email |-> <<"email", a>>,
     fullName |-> <<"fullName", a>>, role |-> <<"role", RoleOf(a)>>]

Users == {User(a) : a \in Accounts}

\* the profile fields of interface LoginResponse
LoginProfile(a) ==
    [userId |-> <<"id", a>>, username |-> <<"username", a>>, email |-> <<"email", a>>,
     fullName |-> <<"fullName", a>>, role |-> <<"role", RoleOf(a)>>]

LoginProfiles == {LoginProfile(a) : a \in Accounts}

\* slip: the full name is taken from the username field
UserFromLoginSwapped(r) ==
    [id |-> r.userId, username |-> r.username, email |-> r.email,
     fullName |-> r.username, role |-> r.role]

\* AuthProvider.login: the user built from the login response
UserFromLogin(r) ==
    [id |-> r.userId, username |-> r.username, email |-> r.email,
     fullName |-> r.fullName, role |-> r.role]

Modules == {"auth", "portfolio", "strategy", "backtest", "product", "trade",
            "marketData", "analytics"}

ServiceModules == Modules \ {"auth"}

NoHeader == <<>>

\* `Bearer ${token}`: string interpolation, so a null token gives "Bearer null"
Bearer(token) == <<"Bearer", token>>

NoError == [kind |-> "none", depth |-> 0]

HttpError(status, depth) == [kind |-> status, depth |-> depth]

NoRefreshTokenError(depth) == [kind |-> "noRefreshToken", depth |-> depth]

EnvelopeError == [kind |-> "envelope", depth |-> 0]

-----------------------------------------------------------------------------
(* localStorage *)

EmptyStorage == [accessToken |-> Null, refreshToken |-> Null]

\* slip: only the access token is removed
RemoveTokensAccessOnly(st) == [st EXCEPT !.accessToken = Null]

RemoveTokens(st) == [st EXCEPT !.accessToken = Null, !.refreshToken = Null]

SetTokensAccessOnly(st, access, refresh) ==
    [st EXCEPT !.accessToken = access]

SetTokens(st, access, refresh) ==
    [st EXCEPT !.accessToken = access, !.refreshToken = refresh]

-----------------------------------------------------------------------------
(* The axios clients *)

\* only authService.ts registers apiClient.interceptors.response.use
HasResponseInterceptor(client) == client = "auth"

\* slip: the request interceptor leaves the config as it is
RequestInterceptorKeep(hdr, token) == hdr

\* request interceptor: the header is set only when a token is stored
RequestInterceptor(hdr, token) == IF token # Null THEN Bearer(token) ELSE hdr

NoFrame ==
    [client |-> "none", url |-> "none", body |-> Null, retry |-> FALSE,
     hdr |-> NoHeader, atSend |-> Null, sends |-> 0, answers |-> <<>>,
     refreshCalls |-> 0, refreshed |-> "none"]

\* a request config; atSend, sends, answers, refreshCalls and refreshed
\* record what happened to it
NewRequest(client, url, body) ==
    [NoFrame EXCEPT !.client = client, !.url = url, !.body = body]

\* dispatch through the client: the request interceptor runs on every send
Dispatch(f, st) ==
    [f EXCEPT !.hdr = RequestInterceptor(@, st.accessToken),
              !.atSend = st.accessToken,
              !.sends = @ + 1]

\* slip: the _retry flag is not consulted
ShouldRefreshNoFlag(f, err) == err.kind = "401"

\* if (error.response?.status === 401 && !originalRequest._retry)
\* slip: every failed response is taken for an expired token
ShouldRefreshAnyError(f, err) == ~f.retry

ShouldRefresh(f, err) == err.kind = "401" /\ ~f.retry

\* originalRequest.headers.Authorization = `Bearer ${token}`
RetryHeader(token) == Bearer(token)

\* slip: the refreshed pair is not persisted
RefreshStoreSkip(st, resp) == st

\* authService.refreshToken after the POST resolved
\* slip: only the access token of the refresh response is stored
RefreshStoreAccessOnly(st, resp) ==
    IF resp.success /\ resp.pair # 0
    THEN [st EXCEPT !.accessToken = TokenPair(resp.pair).accessToken]
    ELSE st

RefreshStore(st, resp) ==
    IF resp.success /\ resp.pair # 0
    THEN SetTokens(st, TokenPair(resp.pair).accessToken,
                       TokenPair(resp.pair).refreshToken)
    ELSE st

Top(s) == s.call.stack[Len(s.call.stack)]

SetTop(s, f) ==
    [s EXCEPT !.call.stack = [@ EXCEPT ![Len(s.call.stack)] = f]]

Pop(s) ==
    [s EXCEPT !.call.stack = SubSeq(@, 1, Len(s.call.stack) - 1)]

Resolved(resp) == [settled |-> "resolved", resp |-> resp, err |-> NoError]

NoResp == [status |-> "none", success |-> FALSE, pair |-> 0, user |-> NoUser]

Rejected(err) == [settled |-> "rejected", resp |-> NoResp, err |-> err]

\* rsent counts the refresh POSTs the response interceptor issued for the
\* call that the stack holds or held, rfirst is the status that answered the
\* first of them; over is the parity of the configs RefreshAgain let go
IdleCall ==
    [op |-> "idle", stack |-> <<>>, rsent |-> 0, rfirst |-> "none", over |-> 0]

\* how an operation ended: its request, the request's promise, its own promise
NoFin ==
    [req |-> NoFrame, reqResult |-> "none", reqErr |-> NoError,
     result |-> "none", err |-> NoError, rsent |-> 0, rfirst |-> "none"]

\* AuthProvider.logout called from the catch of AuthProvider.refreshToken
LogoutCall(st) ==
    [IdleCall EXCEPT !.op = "logout",
                     !.stack = <<Dispatch(NewRequest("auth", "logout", Null), st)>>]

\* slip: the catch only rethrows
ProviderRefreshCatchRethrow(s) == s

\* catch of AuthProvider.refreshToken: logout(), then rethrow
ProviderRefreshCatch(s) ==
    [s EXCEPT !.call = LogoutCall(s.storage), !.user = NoUser]

\* slip: the envelope of the profile response is not looked at
ProfileOkNoEnvelope(out) == out.settled = "resolved"

\* authService.getProfile returns the user instead of throwing
ProfileOk(out) ==
    out.settled = "resolved" /\ out.resp.success /\ out.resp.user # NoUser

\* the operation that awaited the bottom request continues and ends
OpContinue(s, f, out) ==
    LET done(res, err) ==
            [s EXCEPT !.call = IdleCall,
                      !.fin = [req |-> f, reqResult |-> out.settled,
                               reqErr |-> out.err, result |-> res, err |-> err,
                               rsent |-> s.call.rsent, rfirst |-> s.call.rfirst]]
    IN CASE s.call.op = "login" ->
              IF out.settled = "resolved"
              THEN [done("resolved", NoError) EXCEPT
                        !.storage = SetTokens(@, TokenPair(out.resp.pair).accessToken,
                                                 TokenPair(out.resp.pair).refreshToken),
                        !.user = UserFromLogin(out.resp.user)]
              ELSE done("rejected", out.err)
         [] s.call.op = "logout" ->
              [done("resolved", NoError) EXCEPT !.storage = RemoveTokens(@)]
         [] s.call.op = "init" ->
              IF ProfileOk(out)
              THEN [done("resolved", NoError) EXCEPT
                        !.user = out.resp.user, !.loading = FALSE]
              ELSE [done("resolved", NoError) EXCEPT
                        !.storage = RemoveTokens(@), !.loading = FALSE]
         [] s.call.op = "refresh" ->
              \* authService.refreshToken() awaited by AuthProvider.refreshToken;
              \* its catch calls logout(): POST /auth/logout, setUser(null)
              IF out.settled = "resolved"
              THEN [done("resolved", NoError) EXCEPT
                        !.storage = RefreshStore(@, out.resp)]
              ELSE ProviderRefreshCatch(done("rejected", out.err))
         [] s.call.op = "service" ->
              IF out.settled = "resolved"
              THEN IF out.resp.success
                   THEN done("resolved", NoError)
                   ELSE done("rejected", EnvelopeError)
              ELSE done("rejected", out.err)
         [] OTHER -> done(out.settled, out.err)

RECURSIVE Complete(_, _)

\* catch (refreshError) of the response interceptor of the top config
InterceptorCatch(s, err) ==
    LET s1 == [SetTop(s, [Top(s) EXCEPT !.refreshed = "failed"]) EXCEPT
                   !.storage = RemoveTokens(@), !.href = "/login"]
    IN Complete(s1, Rejected(err))

\* the promise of the top config settles with out
Complete(s, out) ==
    IF Len(s.call.stack) > 1
    THEN \* a refresh POST: authService.refreshToken() continues, then the
         \* response interceptor of the config below
         LET p == Pop(s) IN
         IF out.settled = "resolved"
         THEN LET st == RefreshStore(p.storage, out.resp)
                  g  == [Top(p) EXCEPT
                            !.refreshed = IF out.resp.success /\ out.resp.pair # 0
                                          THEN "ok" ELSE "nosuccess",
                            !.hdr = RetryHeader(st.accessToken)]
                  g2 == Dispatch(g, st)
              IN [SetTop(p, g2) EXCEPT !.storage = st]
         ELSE InterceptorCatch(p, out.err)
    ELSE OpContinue(s, Top(s), out)

\* slip: the stored refresh token is not checked before the POST
StartRefreshNoCheck(s) ==
    LET r  == Dispatch(NewRequest("auth", "refresh", s.storage.refreshToken), s.storage)
        s1 == SetTop(s, [Top(s) EXCEPT !.refreshCalls = @ + 1])
    IN [s1 EXCEPT !.call.stack = Append(@, r), !.call.rsent = @ + 1]

\* authService.refreshToken() called by the response interceptor of the top config
StartRefresh(s) ==
    LET rt == s.storage.refreshToken
        d  == Len(s.call.stack)
    IN IF rt = Null
       THEN InterceptorCatch(s, NoRefreshTokenError(d + 1))
       ELSE LET r  == Dispatch(NewRequest("auth", "refresh", rt), s.storage)
                s1 == SetTop(s, [Top(s) EXCEPT !.refreshCalls = @ + 1])
            IN [s1 EXCEPT !.call.stack = Append(@, r), !.call.rsent = @ + 1]

\* slip: the error handler only rejects
ResponseErrorRejectOnly(s, err) == Complete(s, Rejected(err))

\* error handler of the response interceptor (a client without one rejects)
ResponseError(s, err) ==
    IF HasResponseInterceptor(Top(s).client) /\ ShouldRefresh(Top(s), err)
    THEN StartRefresh(SetTop(s, [Top(s) EXCEPT !.retry = TRUE]))
    ELSE Complete(s, Rejected(err))

\* the answer a arrives for the config on the wire
OnResponse(s, a) ==
    LET s0 == SetTop(s, [Top(s) EXCEPT !.answers = Append(@, a.status)])
        s1 == IF Len(s.call.stack) > 1 /\ s.call.rfirst = "none"
              THEN [s0 EXCEPT !.call.rfirst = a.status]
              ELSE s0
    IN IF a.status \in {"ok", "nosuccess"}
       THEN Complete(s1, Resolved(a))
       ELSE ResponseError(s1, HttpError(a.status, Len(s.call.stack)))

-----------------------------------------------------------------------------
(* The backend: any answer to any request *)

Answer(status, pair, u) ==
    [status |-> status, success |-> status = "ok", pair |-> pair, user |-> u]

Answers(url) ==
    CASE url = "login" ->
            {Answer("ok", issued + 1, u) :
                u \in IF issued < MaxIssued THEN LoginProfiles ELSE {}}
            \cup {Answer("401", 0, NoUser), Answer("err", 0, NoUser)}
      [] url = "refresh" ->
            {Answer("ok", issued + 1, NoUser) : x \in IF issued < MaxIssued THEN {1} ELSE {}}
            \cup {Answer("nosuccess", 0, NoUser), Answer("401", 0, NoUser),
                  Answer("err", 0, NoUser)}
      [] url = "profile" ->
            {Answer("ok", 0, u) : u \in Users}
            \cup {Answer("nosuccess", 0, NoUser), Answer("401", 0, NoUser),
                  Answer("err", 0, NoUser)}
      [] url = "data" ->
            {Answer("ok", 0, NoUser), Answer("nosuccess", 0, NoUser),
             Answer("401", 0, NoUser), Answer("err", 0, NoUser)}
      [] OTHER ->
            {Answer("ok", 0, NoUser), Answer("401", 0, NoUser), Answer("err", 0, NoUser)}

-----------------------------------------------------------------------------
(* Pages *)

\* the symbols loadLiveData walks through, in its order (two of the twelve)
Symbols == <<"AAPL", "MSFT">>

SymbolSet == {Symbols[k] : k \in 1..Len(Symbols)}

Prices == {<<"price", "a">>, <<"price", "b">>}

\* the Map has no entry for the symbol
NoData == <<>>

EmptyMap == [s \in SymbolSet |-> NoData]

\* enum BacktestStatus
BacktestStatus == {"PENDING", "RUNNING", "COMPLETED", "FAILED", "CANCELLED"}

Backtest(id, status) == [id |-> id, status |-> status]

\* what GET /backtests can return
BacktestLists ==
    {<<>>,
     <<Backtest("bt1", "COMPLETED")>>,
     <<Backtest("bt1", "RUNNING"), Backtest("bt2", "COMPLETED")>>}

\* a service method returned the data of the envelope
Returned(d) == [ok |-> TRUE, data |-> d]

\* a service method threw: transport error, 401 or envelope without success
Threw == [ok |-> FALSE, data |-> <<>>]

\* list: loadBacktests awaits getBacktests; pos: the symbol loadLiveData
\* awaits (0: not running); dataMap: its local Map; failed: the symbols whose
\* fetch threw in this run; did: the last step of a page
IdleTask ==
    [list |-> FALSE, pos |-> 0, dataMap |-> EmptyMap, failed |-> {}, did |-> "none"]

\* TradeDeskPage: the values of activeTab
Tabs == {"orders", "trades", "positions", "quotes"}

\* page: the page mounted; status: backtest?.status of BacktestResultsPage
\* ("null": no backtest held); interval: its polling interval exists;
\* inflight: its getBacktest calls not yet settled; listLoading: a
\* getBacktests call of BacktestsPage has not settled; seenList: the
\* backtests the interval callback of BacktestsPage closes over; tab:
\* activeTab of TradeDeskPage; seenTab: the activeTab its interval callback
\* closes over; did: the last step of a page; fetched: the requests that
\* step issued
IdlePoll ==
    [page |-> "none", status |-> "null", interval |-> FALSE, inflight |-> 0,
     listLoading |-> FALSE, seenList |-> <<>>,
     tab |-> "orders", seenTab |-> "orders",
     did |-> "none", fetched |-> {}]

\* slip: the interval is set whatever the status
PollingEffectAlways(status) == TRUE

\* BacktestResultsPage polling effect: an interval exists after the effect
\* ran iff backtest?.status === BacktestStatus.RUNNING
PollingEffect(status) == status = "RUNNING"

\* backtests.filter(b => b.status === BacktestStatus.RUNNING)
RunningBacktests(list) == SelectSeq(list, LAMBDA b : b.status = "RUNNING")

\* TradeDeskPage effect on [activeTab]: the loader of the tab
TabLoader(tab) ==
    CASE tab = "orders" -> {"orders"}
      [] tab = "trades" -> {"trades"}
      [] tab = "positions" -> {"positions"}
      [] OTHER -> {}

\* BacktestsPage.loadBacktests after the await: setBacktests(data) or catch
LoadBacktestsSettle(held, out) == IF out.ok THEN out.data ELSE held

\* MarketDataPage.loadLiveData, body of the loop for one symbol
LivePriceSettle(dataMap, symbol, out) ==
    IF out.ok THEN [dataMap EXCEPT ![symbol] = out.data] ELSE dataMap

-----------------------------------------------------------------------------
(* State *)

NoEvent ==
    [kind |-> "none", call |-> 0, op |-> "none", status |-> "none", pair |-> 0,
     ruser |-> NoUser, depth |-> 0, fin |-> NoFin]

\* what one task reads and writes: the shared state and its own call
World(i) ==
    [storage |-> storage, user |-> user, loading |-> loading, href |-> href,
     call |-> calls[i], fin |-> NoFin]

RemoveAt(q, i) == SubSeq(q, 1, i - 1) \o SubSeq(q, i + 1, Len(q))

\* the operation op sends its request through client
Begin(op, client, url) ==
    LET r == Dispatch(NewRequest(client, url, Null), storage)
    IN /\ calls' = Append(calls, [IdleCall EXCEPT !.op = op, !.stack = <<r>>])
       /\ ev' = [NoEvent EXCEPT !.kind = "start", !.call = Len(calls) + 1, !.op = op]

Init ==
    /\ \E k \in 0..1 :
          /\ issued = k
          /\ storage = IF k = 0 THEN EmptyStorage
                       ELSE SetTokens(EmptyStorage, AccessTok(k), RefreshTok(k))
    /\ user = NoUser
    /\ loading = TRUE
    /\ href = "app"
    /\ started = FALSE
    /\ calls = <<>>
    /\ ev = NoEvent
    /\ backtests = <<>>
    /\ liveData = EmptyMap
    /\ task = IdleTask
    /\ poll = IdlePoll

\* slip: the profile is fetched whether or not a token is stored
HasAccessTokenAlways(st) == TRUE

\* const token = authService.getAccessToken(); if (token)
HasAccessToken(st) == st.accessToken # Null

\* AuthProvider useEffect: initializeAuth
InitializeAuth ==
    /\ UNCHANGED pageVars
    /\ ~started
    /\ started' = TRUE
    /\ IF HasAccessToken(storage)
       THEN /\ Begin("init", "auth", "profile")
            /\ UNCHANGED <<storage, user, loading, href, issued>>
       ELSE /\ loading' = FALSE
            /\ ev' = [NoEvent EXCEPT !.kind = "start", !.op = "init"]
            /\ UNCHANGED <<storage, user, href, calls, issued>>

\* the login form's submit button is disabled while its login is pending
LoginPending == \E i \in 1..Len(calls) : calls[i].op = "login"

\* AuthProvider.login -> authService.login, from the login page
Login(n) ==
    /\ UNCHANGED pageVars
    /\ ~loading /\ user = NoUser /\ Len(calls) < n
    /\ ~LoginPending
    /\ Begin("login", "auth", "login")
    /\ UNCHANGED <<storage, user, loading, href, started, issued>>

\* AuthProvider.register -> authService.register, from the register page
Register(n) ==
    /\ UNCHANGED pageVars
    /\ ~loading /\ user = NoUser /\ Len(calls) < n
    /\ Begin("register", "auth", "register")
    /\ UNCHANGED <<storage, user, loading, href, started, issued>>

\* AuthProvider.logout: authService.logout() is not awaited, setUser(null)
Logout(n) ==
    /\ UNCHANGED pageVars
    /\ ~loading /\ user # NoUser /\ Len(calls) < n
    /\ Begin("logout", "auth", "logout")
    /\ user' = NoUser
    /\ UNCHANGED <<storage, loading, href, started, issued>>

\* AuthProvider.refreshToken -> authService.refreshToken, from a page behind
\* the route guard (no page of the repository calls it)
RefreshToken(n) ==
    /\ UNCHANGED pageVars
    /\ ~loading /\ user # NoUser /\ Len(calls) < n
    /\ IF storage.refreshToken = Null
       THEN \* throw new Error('No refresh token available'), caught
            \E s \in {ProviderRefreshCatch(
                          [storage |-> storage, user |-> user, loading |-> loading,
                           href |-> href, call |-> IdleCall, fin |-> NoFin])} :
            /\ calls' = IF s.call.stack = <<>> THEN calls ELSE Append(calls, s.call)
            /\ user' = s.user
            /\ ev' = [NoEvent EXCEPT
                         !.kind = "start", !.call = Len(calls) + 1, !.op = "refresh",
                         !.fin = [NoFin EXCEPT !.result = "rejected",
                                               !.err = NoRefreshTokenError(1)]]
       ELSE LET r == Dispatch(NewRequest("auth", "refresh", storage.refreshToken),
                              storage)
            IN /\ calls' = Append(calls, [IdleCall EXCEPT !.op = "refresh",
                                                          !.stack = <<r>>])
               /\ ev' = [NoEvent EXCEPT !.kind = "start", !.call = Len(calls) + 1,
                                        !.op = "refresh"]
               /\ user' = user
    /\ UNCHANGED <<storage, loading, href, started, issued>>

\* a page calls a method of a service module
Service(n, m) ==
    /\ UNCHANGED pageVars
    /\ ~loading /\ user # NoUser /\ Len(calls) < n
    /\ Begin("service", m, "data")
    /\ UNCHANGED <<storage, user, loading, href, started, issued>>

\* the request on the wire of the i-th call is answered with one of answers
ResponseFrom(i, answers) ==
    /\ UNCHANGED pageVars
    /\ i \in 1..Len(calls)
    /\ \E a \in answers :
          \E s \in {OnResponse(World(i), a)} :
          /\ Len(s.call.stack) <= MaxDepth
          /\ storage' = s.storage
          /\ user' = s.user
          /\ loading' = s.loading
          /\ href' = s.href
          /\ calls' = IF s.call.stack = <<>> THEN RemoveAt(calls, i)
                      ELSE [calls EXCEPT ![i] = s.call]
          /\ issued' = IF a.pair # 0 THEN a.pair ELSE issued
          /\ ev' = [kind |-> "response", call |-> i, op |-> calls[i].op,
                    status |-> a.status, pair |-> a.pair, ruser |-> a.user,
                    depth |-> Len(calls[i].stack), fin |-> s.fin]
    /\ UNCHANGED started

\* the backend answers the request on the wire of the i-th call
Response(i) ==
    /\ i \in 1..Len(calls)
    /\ ResponseFrom(i, Answers(calls[i].stack[Len(calls[i].stack)].url))

\* The chain of refresh POSTs beyond MaxDepth: the refresh POST on top of a
\* full stack is answered 401; its config is new and carries no _retry, so the
\* response interceptor marks it and calls authService.refreshToken() again.
\* The stack keeps the bottom configs and the last two of the chain.
RefreshAgain(i) ==
    /\ UNCHANGED pageVars
    /\ i \in 1..Len(calls)
    /\ Len(calls[i].stack) = MaxDepth
    /\ \E top \in {calls[i].stack[MaxDepth]} :
          /\ top.url = "refresh"
          /\ HasResponseInterceptor(top.client)
          /\ ShouldRefresh(top, HttpError("401", MaxDepth))
          /\ storage.refreshToken # Null
          /\ calls' = [calls EXCEPT
                ![i].stack =
                    SubSeq(@, 1, MaxDepth - 2)
                    \o << [top EXCEPT !.answers = Append(@, "401"), !.retry = TRUE,
                                      !.refreshCalls = @ + 1],
                          Dispatch(NewRequest("auth", "refresh", storage.refreshToken),
                                   storage) >>,
                ![i].over = 1 - @]
    /\ ev' = [NoEvent EXCEPT !.kind = "response", !.call = i, !.op = calls[i].op,
                             !.status = "401", !.depth = MaxDepth]
    /\ UNCHANGED <<storage, user, loading, href, started, issued>>

\* window.location.href = '/login' loads the application anew
PageLoad ==
    /\ UNCHANGED pageVars
    /\ href = "/login"
    /\ href' = "app"
    /\ user' = NoUser
    /\ loading' = TRUE
    /\ started' = FALSE
    /\ calls' = <<>>
    /\ ev' = [NoEvent EXCEPT !.kind = "load"]
    /\ UNCHANGED <<storage, issued>>

\* BacktestsPage: loadBacktests starts (mount, poll)
LoadBacktests ==
    /\ ~task.list
    /\ task' = [task EXCEPT !.list = TRUE, !.did = "loadBacktests"]
    /\ UNCHANGED <<backtests, liveData, poll>>
    /\ UNCHANGED sessionVars

\* backtestService.getBacktests() returns a list or throws
BacktestsResponse ==
    /\ task.list
    /\ \E out \in {Returned(d) : d \in BacktestLists} \cup {Threw} :
          /\ backtests' = LoadBacktestsSettle(backtests, out)
          /\ task' = [task EXCEPT !.list = FALSE,
                                  !.did = IF out.ok THEN "setBacktests"
                                          ELSE "backtestsFailed"]
    /\ UNCHANGED <<liveData, poll>>
    /\ UNCHANGED sessionVars

\* MarketDataPage: loadLiveData starts (mount, every 30 s, refresh button)
LoadLiveData ==
    /\ task.pos = 0
    /\ task' = [task EXCEPT !.pos = 1, !.dataMap = EmptyMap, !.failed = {},
                            !.did = "loadLiveData"]
    /\ UNCHANGED <<backtests, liveData, poll>>
    /\ UNCHANGED sessionVars

\* marketDataService.getLivePrice(symbol) returns a price or throws; after
\* the last symbol setLiveData(dataMap)
LivePriceResponse ==
    /\ task.pos \in 1..Len(Symbols)
    /\ \E out \in {Returned(d) : d \in Prices} \cup {Threw} :
          \E m \in {LivePriceSettle(task.dataMap, Symbols[task.pos], out)} :
          /\ liveData' = IF task.pos = Len(Symbols) THEN m ELSE liveData
          /\ task' = [task EXCEPT
                !.dataMap = m,
                !.failed = IF out.ok THEN @ ELSE @ \cup {Symbols[task.pos]},
                !.pos = IF task.pos = Len(Symbols) THEN 0 ELSE @ + 1,
                !.did = IF task.pos = Len(Symbols) THEN "setLiveData" ELSE "price"]
    /\ UNCHANGED <<backtests, poll>>
    /\ UNCHANGED sessionVars

\* BacktestResultsPage mounts with a backtest id: useState(null), the load
\* effect calls loadBacktest(), the polling effect finds no backtest
MountResults ==
    /\ poll.page = "none"
    /\ poll' = [IdlePoll EXCEPT !.page = "results",
                                !.status = "null",
                                !.interval = PollingEffect("null"),
                                !.inflight = 1,
                                !.did = "mountResults",
                                !.fetched = {"backtest"}]
    /\ UNCHANGED <<backtests, liveData, task>>
    /\ UNCHANGED sessionVars

\* backtestService.getBacktest(id) returns a backtest or throws:
\* setBacktest(data) or the catch; the polling effect runs again when
\* backtest?.status has changed (cleanup of the old interval first)
ResultsResponse ==
    /\ poll.page = "results"
    /\ poll.inflight > 0
    /\ \E out \in {Returned(Backtest("bt1", st)) : st \in BacktestStatus} \cup {Threw} :
          \E st \in {IF out.ok THEN out.data.status ELSE poll.status} :
             poll' = [poll EXCEPT
                        !.status = st,
                        !.interval = IF st # poll.status THEN PollingEffect(st) ELSE @,
                        !.inflight = @ - 1,
                        !.did = "resultsResponse",
                        !.fetched = {}]
    /\ UNCHANGED <<backtests, liveData, task>>
    /\ UNCHANGED sessionVars

\* the 3 s interval of BacktestResultsPage fires: loadBacktest()
ResultsTick ==
    /\ poll.page = "results"
    /\ poll.interval
    /\ poll.inflight < MaxInFlight
    /\ poll' = [poll EXCEPT !.inflight = @ + 1,
                            !.did = "resultsTick",
                            !.fetched = {"backtest"}]
    /\ UNCHANGED <<backtests, liveData, task>>
    /\ UNCHANGED sessionVars

\* BacktestResultsPage unmounts: the cleanup clears the interval; what the
\* calls still in flight set afterwards is dropped with the component
UnmountResults ==
    /\ poll.page = "results"
    /\ poll' = [IdlePoll EXCEPT !.did = "unmountResults"]
    /\ UNCHANGED <<backtests, liveData, task>>
    /\ UNCHANGED sessionVars

\* BacktestsPage mounts: useState([]), the effect calls loadBacktests() and
\* sets the 5 s interval, whose callback closes over the backtests of this
\* first render; the effect has no dependencies and does not run again
MountList ==
    /\ poll.page = "none"
    /\ \E first \in {<<>>} :
          /\ backtests' = first
          /\ poll' = [IdlePoll EXCEPT !.page = "list",
                                      !.listLoading = TRUE,
                                      !.seenList = first,
                                      !.did = "mountList",
                                      !.fetched = {"backtests"}]
    /\ UNCHANGED <<liveData, task>>
    /\ UNCHANGED sessionVars

\* backtestService.getBacktests() returns a list or throws
ListResponse ==
    /\ poll.page = "list"
    /\ poll.listLoading
    /\ \E out \in {Returned(d) : d \in BacktestLists} \cup {Threw} :
          backtests' = LoadBacktestsSettle(backtests, out)
    /\ poll' = [poll EXCEPT !.listLoading = FALSE,
                            !.did = "listResponse",
                            !.fetched = {}]
    /\ UNCHANGED <<liveData, task>>
    /\ UNCHANGED sessionVars

\* the 5 s interval of BacktestsPage fires: loadBacktests() if the backtests
\* the callback closes over hold a RUNNING one
BacktestsTick ==
    /\ poll.page = "list"
    /\ \E go \in {Len(RunningBacktests(poll.seenList)) > 0} :
          poll' = [poll EXCEPT !.listLoading = @ \/ go,
                               !.did = "listTick",
                               !.fetched = IF go THEN {"backtests"} ELSE {}]
    /\ UNCHANGED <<backtests, liveData, task>>
    /\ UNCHANGED sessionVars

\* BacktestsPage unmounts: clearInterval
UnmountList ==
    /\ poll.page = "list"
    /\ poll' = [IdlePoll EXCEPT !.did = "unmountList"]
    /\ UNCHANGED <<backtests, liveData, task>>
    /\ UNCHANGED sessionVars

\* TradeDeskPage mounts: activeTab is 'orders'; the mount effect calls
\* loadData(), loadPortfolios(), loadMarketQuotes() and sets the 30 s
\* interval, whose callback closes over the activeTab of this first render;
\* the effect on [activeTab] calls loadOrders()
MountDesk ==
    /\ poll.page = "none"
    /\ \E first \in {"orders"} :
          poll' = [IdlePoll EXCEPT
                     !.page = "desk",
                     !.tab = first,
                     !.seenTab = first,
                     !.did = "mountDesk",
                     !.fetched = {"orders", "trades", "positions", "portfolios",
                                  "quotes"} \cup TabLoader(first)]
    /\ UNCHANGED <<backtests, liveData, task>>
    /\ UNCHANGED sessionVars

\* setActiveTab(t): the effect on [activeTab] calls the loader of the tab;
\* the mount effect does not run again
SelectTab ==
    /\ poll.page = "desk"
    /\ \E t \in Tabs \ {poll.tab} :
          poll' = [poll EXCEPT !.tab = t,
                               !.did = "selectTab",
                               !.fetched = TabLoader(t)]
    /\ UNCHANGED <<backtests, liveData, task>>
    /\ UNCHANGED sessionVars

\* the 30 s interval of TradeDeskPage fires: loadMarketQuotes(), and
\* loadPositions() if the activeTab the callback closes over is 'positions'
DeskTick ==
    /\ poll.page = "desk"
    /\ poll' = [poll EXCEPT
                  !.did = "deskTick",
                  !.fetched = {"quotes"} \cup
                              (IF poll.seenTab = "positions" THEN {"positions"}
                               ELSE {})]
    /\ UNCHANGED <<backtests, liveData, task>>
    /\ UNCHANGED sessionVars

\* TradeDeskPage unmounts: clearInterval
UnmountDesk ==
    /\ poll.page = "desk"
    /\ poll' = [IdlePoll EXCEPT !.did = "unmountDesk"]
    /\ UNCHANGED <<backtests, liveData, task>>
    /\ UNCHANGED sessionVars

\* at most n operations are pending at a time
Next(n) ==
    \/ InitializeAuth
    \/ Login(n)
    \/ Register(n)
    \/ Logout(n)
    \/ \E m \in ServiceModules : Service(n, m)
    \/ \E i \in 1..n : Response(i)
    \/ PageLoad

\* one operation at a time
Spec == Init /\ [][Next(MaxCalls)]_vars

\* operations overlap
SpecConc == Init /\ [][Next(MaxConc)]_vars

\* the refresh chain is followed beyond MaxDepth
NextLive(n) ==
    \/ Next(n)
    \/ \E i \in 1..n : RefreshAgain(i)

\* the start sequence runs, a request on the wire is answered or fails, and
\* the navigation to /login happens; what the user does is not forced
SpecLive ==
    /\ Init /\ [][NextLive(MaxCalls)]_vars
    /\ WF_vars(InitializeAuth)
    /\ WF_vars(PageLoad)
    /\ \A i \in 1..MaxCalls : WF_vars(Response(i) \/ RefreshAgain(i))

\* a backend that does not rotate may answer a refresh with the pair it
\* issued last
BurstAnswers(url) ==
    Answers(url)
    \cup (IF url = "refresh" /\ issued >= 1
          THEN {Answer("ok", issued, NoUser)} ELSE {})

\* an answer that does not make the refresh chain grow: no refresh POST is
\* answered 401 while a refresh token is stored (that chain is RefreshAgain's)
BurstResponse(i) ==
    /\ i \in 1..Len(calls)
    /\ ResponseFrom(i, BurstAnswers(calls[i].stack[Len(calls[i].stack)].url))
    /\ \A k \in 1..Len(calls') : Len(calls'[k].stack) <= 2

\* the requests of the intercepted client overlap
NextBurst(n) ==
    \/ InitializeAuth
    \/ Login(n)
    \/ Register(n)
    \/ Logout(n)
    \/ \E i \in 1..n : BurstResponse(i)
    \/ PageLoad

\* bursts of requests of the intercepted client, each with at most its own
\* refresh POST
SpecBurst == Init /\ [][NextBurst(MaxConc)]_vars

\* a session behind the route guard, the pages not loaded yet
InitPages ==
    /\ issued = 1
    /\ storage = SetTokens(EmptyStorage, AccessTok(1), RefreshTok(1))
    /\ user \in Users
    /\ loading = FALSE
    /\ href = "app"
    /\ started = TRUE
    /\ calls = <<>>
    /\ ev = NoEvent
    /\ backtests = <<>>
    /\ liveData = EmptyMap
    /\ task = IdleTask
    /\ poll = IdlePoll

NextPages ==
    \/ LoadBacktests
    \/ BacktestsResponse
    \/ LoadLiveData
    \/ LivePriceResponse

\* the fetches of BacktestsPage and MarketDataPage
SpecPages == InitPages /\ [][NextPages]_vars

NextPolling ==
    \/ MountResults
    \/ ResultsResponse
    \/ ResultsTick
    \/ UnmountResults
    \/ MountList
    \/ ListResponse
    \/ BacktestsTick
    \/ UnmountList
    \/ MountDesk
    \/ SelectTab
    \/ DeskTick
    \/ UnmountDesk

\* the polling of BacktestResultsPage, BacktestsPage and TradeDeskPage
SpecPolling == InitPages /\ [][NextPolling]_vars

\* the operations of the session holder, refreshToken included; the calls of
\* the service modules write nothing the session reads and are left out
NextSession(n) ==
    \/ InitializeAuth
    \/ Login(n)
    \/ Register(n)
    \/ Logout(n)
    \/ RefreshToken(n)
    \/ \E i \in 1..n : Response(i)
    \/ PageLoad

\* the navigation that window.location.href = '/login' starts does happen
SpecSession ==
    Init /\ [][NextSession(MaxCalls)]_vars /\ WF_vars(PageLoad)

-----------------------------------------------------------------------------
(* Properties *)

LiveFrames ==
    UNION {{calls[i].stack[j] : j \in 1..Len(calls[i].stack)} : i \in 1..Len(calls)}

\* every request config that was sent and is still known
SentFrames == LiveFrames \cup (IF ev.fin.req.url # "none" THEN {ev.fin.req} ELSE {})

FirstAnswer401(f) == Len(f.answers) >= 1 /\ f.answers[1] = "401"

\* an error raised by refreshToken() or its POST, not by the request itself
IsRefreshError(e) == e.depth > 1

\* C1: a request of the authenticated client answered 401 whose refresh POST
\* is answered with success causes exactly one refresh POST and exactly one
\* retry; when the retry is answered 401 too, no further refresh POST is
\* issued and the request's promise is rejected with that 401.
C1_OneRefreshOneRetry ==
    /\ \A i \in 1..Len(calls) :
          LET c == calls[i]
              f == c.stack[1]
          IN (f.client = "auth" /\ FirstAnswer401(f) /\ c.rfirst = "ok")
                => (c.rsent = 1 /\ f.refreshCalls = 1 /\ f.sends = 2)
    /\ LET f == ev.fin.req
       IN (f.client = "auth" /\ FirstAnswer401(f) /\ ev.fin.rfirst = "ok")
             => /\ ev.fin.rsent = 1 /\ f.refreshCalls = 1 /\ f.sends = 2
                /\ Len(f.answers) = 2
                /\ f.answers[2] = "401"
                      => (ev.fin.reqResult = "rejected"
                          /\ ev.fin.reqErr = HttpError("401", 1))

C1_Witness ==
    /\ ev.fin.req.client = "auth"
    /\ ev.fin.req.answers = <<"401", "401">>
    /\ ev.fin.rfirst = "ok"
    /\ ev.fin.rsent = 1
    /\ ev.fin.reqResult = "rejected"

\* C2: a request of any module whose first answer is 401 has the refresh
\* policy applied to it: it is marked as retried and a refresh is attempted.
C2_EveryModuleRefreshes ==
    LET f == ev.fin.req
    IN (f.client \in Modules /\ FirstAnswer401(f))
          => (f.retry /\ (f.refreshCalls = 1 \/ f.refreshed = "failed"))

\* C3: a request sent while an access token is stored carries the bearer
\* header of the token stored at that moment.
C3_BearerOfStoredToken ==
    \A f \in SentFrames : f.atSend # Null => f.hdr = Bearer(f.atSend)

C3_Witness ==
    \E f \in SentFrames :
        /\ f.sends = 2 /\ f.refreshed = "ok"
        /\ f.atSend = storage.accessToken /\ f.atSend # Null
        /\ f.hdr = Bearer(f.atSend)

\* C4: a request sent while no access token is stored carries no
\* Authorization header, first attempts and retries alike.
C4_NoHeaderWithoutToken ==
    \A f \in SentFrames : f.atSend = Null => f.hdr = NoHeader

\* C5: when the refresh attempted for a request fails (refreshToken() throws:
\* no refresh token, or its POST is rejected, as on a transport error), both
\* tokens are cleared, the page is sent to /login, the request is not retried
\* and its promise is rejected with the refresh error.
C5_RefreshFailureTearsDown ==
    (\/ ev.fin.req.refreshed = "failed"
     \/ (ev.kind = "response" /\ ev.depth > 1 /\ ev.status = "err"))
       => /\ ev.fin.req.refreshed = "failed"
          /\ storage = EmptyStorage
          /\ href = "/login"
          /\ ev.fin.req.sends = 1
          /\ ev.fin.reqResult = "rejected"
          /\ IsRefreshError(ev.fin.reqErr)

C5_Witness ==
    /\ ev.fin.req.refreshed = "failed"
    /\ ev.fin.req.answers = <<"401">>
    /\ ev.fin.reqErr = HttpError("err", 2)
    /\ ev.fin.rsent = 1
    /\ storage = EmptyStorage

\* C6: a refresh POST answered with a non-success envelope is a refresh
\* failure: tokens cleared, page sent to /login, the request not retried.
C6_NoSuccessIsFailure ==
    (ev.kind = "response" /\ ev.status = "nosuccess" /\ ev.depth > 1)
       => /\ storage = EmptyStorage
          /\ href = "/login"
          /\ ev.fin.req # NoFrame
          /\ ev.fin.req.sends = 1

\* C7: when a refresh is needed and no refresh token is stored, no refresh
\* POST is sent and afterwards no token is stored.
C7_NoRefreshTokenNoPost ==
    [][\A i \in 1..Len(calls) :
          LET f == calls[i].stack[Len(calls[i].stack)]
          IN (/\ ev'.kind = "response" /\ ev'.call = i /\ ev'.status = "401"
              /\ f.client = "auth" /\ ~f.retry
              /\ storage.refreshToken = Null)
                => /\ ev'.fin.req # NoFrame
                   /\ ev'.fin.rsent = calls[i].rsent
                   /\ ev'.fin.reqResult = "rejected"
                   /\ storage' = EmptyStorage]_vars

C7_Witness ==
    /\ ev.kind = "response" /\ ev.status = "401"
    /\ ev.fin.reqErr.kind = "noRefreshToken"
    /\ ev.fin.rsent = 0
    /\ storage = EmptyStorage

\* C8: when a refresh POST is answered with success, storage holds exactly
\* the returned pair when the retry is sent, and the request below is sent a
\* second time carrying the new access token.
C8_RefreshedPairThenRetry ==
    (ev.kind = "response" /\ ev.status = "ok" /\ ev.depth > 1)
       => /\ storage = TokenPair(ev.pair)
          /\ ev.call \in 1..Len(calls)
          /\ Len(calls[ev.call].stack) = ev.depth - 1
          /\ LET f == calls[ev.call].stack[ev.depth - 1]
             IN /\ f.sends = 2
                /\ f.atSend = TokenPair(ev.pair).accessToken
                /\ f.hdr = Bearer(TokenPair(ev.pair).accessToken)

C8_Witness ==
    /\ ev.kind = "response" /\ ev.status = "ok" /\ ev.depth = 2
    /\ storage = TokenPair(ev.pair)
    /\ \E i \in 1..Len(calls) :
          /\ Len(calls[i].stack) = 1
          /\ calls[i].stack[1].sends = 2
          /\ calls[i].stack[1].hdr = Bearer(storage.accessToken)

\* C9: when the retry that follows a successful refresh is answered 401, the
\* tokens are cleared and the session is anonymous.
C9_SecondFailureFatal ==
    (ev.fin.req.answers = <<"401", "401">> /\ ev.fin.rfirst = "ok")
       => (storage = EmptyStorage /\ user = NoUser)

\* C10: when logout ends, both tokens are removed and the session is
\* anonymous, whatever the backend answered.
C10_LogoutEndsAnonymous ==
    (ev.kind = "response" /\ ev.op = "logout" /\ ev.fin.result # "none")
       => (storage = EmptyStorage /\ user = NoUser)

\* C11: when the login request of a login is answered with success, the stored
\* access and refresh token are the pair of that response, the login resolves
\* and the user held has the id, username, email, fullName and role the
\* response carries (id from its userId).
C11_LoginStoresPairAndUser ==
    (ev.kind = "response" /\ ev.op = "login" /\ ev.depth = 1 /\ ev.status = "ok")
       => /\ ev.fin.result = "resolved"
          /\ storage.accessToken = TokenPair(ev.pair).accessToken
          /\ storage.refreshToken = TokenPair(ev.pair).refreshToken
          /\ user # NoUser
          /\ user.id = ev.ruser.userId
          /\ user.username = ev.ruser.username
          /\ user.email = ev.ruser.email
          /\ user.fullName = ev.ruser.fullName
          /\ user.role = ev.ruser.role

C11_Witness ==
    /\ ev.kind = "response" /\ ev.op = "login" /\ ev.depth = 1 /\ ev.status = "ok"
    /\ ev.pair = 2
    /\ user = User("bob")

\* C12: the start of the application with no access token stored ends
\* initialization in that step with no user and loading false, leaves the
\* storage alone and sends nothing to the profile endpoint; once loading is
\* false no profile request is on the wire.
C12_NoTokenStartAnonymous ==
    [][/\ (~started /\ started' /\ storage.accessToken = Null)
          => /\ user' = NoUser
             /\ loading' = FALSE
             /\ storage' = storage
             /\ calls' = calls
       /\ ~loading' => \A f \in LiveFrames' : f.url # "profile"]_vars

C12_Witness ==
    /\ ev.kind = "start" /\ ev.op = "init" /\ ev.call = 0
    /\ storage.accessToken = Null
    /\ ~loading /\ user = NoUser /\ calls = <<>>

\* C13: when the profile fetch of the start sequence fails (its request is
\* rejected with a transport error, a 401 that was not recovered or a refresh
\* error, or answered with an envelope without success), both stored tokens
\* are gone, no user is held and loading is false.
C13_ProfileFailureAnonymous ==
    (/\ ev.kind = "response" /\ ev.op = "init"
     /\ ev.fin.reqResult # "none"
     /\ (ev.fin.reqResult = "rejected" \/ ev.status = "nosuccess"))
       => (storage = EmptyStorage /\ user = NoUser /\ ~loading)

C13_Witness ==
    /\ ev.kind = "response" /\ ev.op = "init"
    /\ ev.fin.reqResult = "rejected" /\ ev.fin.reqErr = HttpError("401", 1)
    /\ ev.fin.req.sends = 2
    /\ storage = EmptyStorage /\ user = NoUser /\ ~loading

\* the catch of the response interceptor of the operation's request ran
InterceptorRefreshFailed == ev.kind = "response" /\ ev.fin.req.refreshed = "failed"

\* authService.refreshToken() awaited by AuthProvider.refreshToken threw
ProviderRefreshFailed == ev.op = "refresh" /\ ev.fin.result = "rejected"

StartupEnded ==
    ev.op = "init" /\ ((ev.kind = "start" /\ ev.call = 0) \/ ev.fin.result # "none")

\* C14: the session holder is loading until the start sequence has run, every
\* start sequence leads to loading false, it ends with a user exactly when
\* the profile request was sent and resolved with success, and loading is not
\* set again by the application that was loaded.
C14_StartupSettles ==
    /\ [](~started => loading)
    /\ loading ~> ~loading
    /\ [](StartupEnded =>
             /\ ~loading
             /\ (user # NoUser) <=>
                    (ev.kind = "response" /\ ev.fin.reqResult = "resolved"
                     /\ ev.status = "ok"))
    /\ [][~loading => (~loading' \/ ev'.kind = "load")]_vars

\* C20: an operation's request causes at most one refresh POST, and a refresh
\* POST answered 401 is not followed by a further refresh call.
C20_AtMostOneRefresh ==
    /\ \A i \in 1..Len(calls) : calls[i].rsent <= 1
    /\ ev.fin.rsent <= 1
    /\ \A f \in SentFrames : f.url = "refresh" => f.refreshCalls = 0

\* C16: no step of a register call changes the user held or the stored tokens.
C16_RegisterKeepsSession ==
    [][ev'.op = "register" => (user' = user /\ storage' = storage)]_vars

C18_FailedFetchKeepsData ==
    [][/\ task'.did = "backtestsFailed" => backtests' = backtests
       /\ task'.did = "setLiveData" =>
             \A s \in task'.failed : liveData'[s] = liveData[s]]_vars

\* the refresh call for f is in flight: f waits below another config
RefreshInFlightFor(f) ==
    \E i \in 1..Len(calls) :
       \E j \in 1..(Len(calls[i].stack) - 1) : calls[i].stack[j] = f

\* C19: for every request: at most one refresh call; a refresh call only for
\* a request already marked as retried; while its refresh call is in flight
\* the request has been sent once only; a second send only after its
\* refresh call completed with success.
C19_MarkRefreshRetryOrder ==
    \A f \in SentFrames :
       /\ f.refreshCalls <= 1
       /\ f.refreshCalls = 1 => f.retry
       /\ RefreshInFlightFor(f) =>
             (f.retry /\ f.refreshCalls = 1 /\ f.sends = 1 /\ f.refreshed = "none")
       /\ f.sends <= 2
       /\ f.sends = 2 => (f.retry /\ f.refreshCalls = 1 /\ f.refreshed = "ok")

\* the calls whose refresh POST is on the wire
RefreshOnWire ==
    {i \in 1..Len(calls) : calls[i].stack[Len(calls[i].stack)].url = "refresh"
                             /\ Len(calls[i].stack) > 1}

\* C21: refresh calls are not shared between requests. Whenever the request
\* of a call of the intercepted client is answered 401 for the first time
\* while a refresh token is stored, that call issues a refresh POST of its
\* own with the stored refresh token, whatever refresh POSTs of other calls
\* are on the wire: there is one more refresh POST on the wire than before.
C21_OneRefreshPerRequest ==
    [][(/\ ev'.kind = "response" /\ ev'.status = "401" /\ ev'.depth = 1
        /\ ev'.call \in 1..Len(calls)
        /\ HasResponseInterceptor(calls[ev'.call].stack[1].client)
        /\ ~calls[ev'.call].stack[1].retry
        /\ storage.refreshToken # Null)
         => LET i == ev'.call IN
            /\ Len(calls') = Len(calls)
            /\ Len(calls'[i].stack) = 2
            /\ calls'[i].stack[2].url = "refresh"
            /\ calls'[i].stack[2].body = storage.refreshToken
            /\ calls'[i].rsent = calls[i].rsent + 1
            /\ \A j \in 1..Len(calls) : j # i => calls'[j] = calls[j]
            /\ RefreshOnWire' = RefreshOnWire \cup {i}
            /\ i \notin RefreshOnWire]_vars

\* two requests, two refresh POSTs with the same refresh token on the wire
C21_Witness ==
    /\ Len(calls) = 2
    /\ RefreshOnWire = {1, 2}
    /\ calls[1].stack[2].body = calls[2].stack[2].body
    /\ calls[1].rsent = 1 /\ calls[2].rsent = 1
    /\ ev.kind = "response" /\ ev.status = "401" /\ ev.depth = 1

\* C22: with overlapping requests each refreshing on its own, an accepted
\* refresh has no wrong outcome. The step in which the refresh POST of a call
\* is answered with success stores the pair of that answer, does not redirect
\* and sends the call's request a second time with the new access token,
\* leaving the other calls alone; a request whose refresh was accepted has
\* been sent exactly twice when it settles and resolves when the retry is
\* answered with success; tokens are removed only by a failed refresh, by
\* logout or by a failed start, and /login is loaded only by a failed refresh.
C22_AcceptedRefreshesAreHarmless ==
    [][/\ (ev'.kind = "response" /\ ev'.depth = 2 /\ ev'.status = "ok"
           /\ ev'.call \in 1..Len(calls))
          => LET i == ev'.call IN
             /\ storage' = [accessToken |-> TokenPair(ev'.pair).accessToken,
                            refreshToken |-> TokenPair(ev'.pair).refreshToken]
             /\ ev'.pair \in 1..issued'
             /\ href' = href
             /\ Len(calls') = Len(calls)
             /\ Len(calls'[i].stack) = 1
             /\ calls'[i].stack[1].sends = 2
             /\ calls'[i].stack[1].hdr = Bearer(TokenPair(ev'.pair).accessToken)
             /\ \A j \in 1..Len(calls) : j # i => calls'[j] = calls[j]
       /\ (ev'.kind = "response" /\ ev'.fin.req.refreshed = "ok")
          => /\ ev'.fin.req.sends = 2
             /\ ev'.fin.req.refreshCalls = 1
             /\ ev'.status = "ok" => ev'.fin.reqResult = "resolved"
       /\ (storage # EmptyStorage /\ storage' = EmptyStorage)
          => (ev'.fin.req.refreshed = "failed" \/ ev'.op \in {"logout", "init"})
       /\ (href # "/login" /\ href' = "/login")
          => ev'.fin.req.refreshed = "failed"]_vars

\* both requests of a burst were refreshed and retried; one has resolved
C22_Witness ==
    /\ ev.kind = "response" /\ ev.status = "ok" /\ ev.depth = 1
    /\ ev.fin.req.refreshed = "ok" /\ ev.fin.req.sends = 2
    /\ ev.fin.reqResult = "resolved"
    /\ Len(calls) = 1
    /\ Len(calls[1].stack) = 1
    /\ calls[1].stack[1].refreshed = "ok" /\ calls[1].stack[1].sends = 2
    /\ storage # EmptyStorage /\ href = "app"

\* C23: the pair a successful refresh has just stored is not removed by the
\* failure handling of another call's refresh: when the refresh POST of
\* another call is answered next, and not with success, the stored pair
\* stays and /login is not loaded.
C23_RefreshedPairSurvives ==
    [][(/\ ev.kind = "response" /\ ev.depth = 2 /\ ev.status = "ok"
        /\ storage = [accessToken |-> TokenPair(ev.pair).accessToken,
                      refreshToken |-> TokenPair(ev.pair).refreshToken]
        /\ ev'.kind = "response" /\ ev'.depth = 2 /\ ev'.call # ev.call
        /\ ev'.status # "ok")
         => (storage' = storage /\ href' = href)]_vars

\* C24: a step of a logout does not remove the tokens stored while a user is
\* held, so that a user held implies an access token stored.
C24_LogoutKeepsLaterLogin ==
    [][(ev'.op = "logout" /\ user # NoUser /\ storage.accessToken # Null)
         => (storage' = storage /\ (user' # NoUser => storage'.accessToken # Null))]_vars

\* C25: the two persisted tokens are present or absent together in every
\* reachable state: storage is empty or holds the access token and the
\* refresh token of one issued pair.
C25_TokensTogether ==
    /\ (storage.accessToken = Null) <=> (storage.refreshToken = Null)
    /\ \/ storage = EmptyStorage
       \/ \E k \in 1..issued :
             storage = [accessToken |-> TokenPair(k).accessToken,
                        refreshToken |-> TokenPair(k).refreshToken]

\* a successful refresh has replaced both tokens by those of its response
C25_Witness ==
    /\ ev.kind = "response" /\ ev.depth = 2 /\ ev.status = "ok"
    /\ issued = 2
    /\ storage.accessToken = AccessTok(2)
    /\ storage.refreshToken = RefreshTok(2)

\* C26: a login that ends rejected leaves the user as it was, has stored no
\* token through its request, and hands an error to its caller.
C26_RejectedLoginWritesNothing ==
    [][(ev'.kind = "response" /\ ev'.op = "login" /\ ev'.fin.result = "rejected")
         => /\ user' = user
            /\ ev'.fin.req.refreshed # "ok"
            /\ ev'.fin.err # NoError]_vars

-----------------------------------------------------------------------------
(* Route guarding (App.tsx) *)

Spinner == [kind |-> "spinner", name |-> "LoadingSpinner"]

Page(name) == [kind |-> "page", name |-> name]

Navigate(to) == [kind |-> "navigate", name |-> to]

NoMatch == [kind |-> "none", name |-> "none"]

\* <Route path=... element={user ? ifUser : ifAnon} />
Route(path, ifUser, ifAnon) == [path |-> path, ifUser |-> ifUser, ifAnon |-> ifAnon]

\* the <Routes> of AppRoutes, in the order of the source
Routes ==
    << Route("/login", Navigate("/dashboard"), Page("LoginPage")),
       Route("/register", Navigate("/dashboard"), Page("RegisterPage")),
       Route("/dashboard", Page("Dashboard"), Navigate("/login")),
       Route("/strategies", Page("StrategiesPage"), Navigate("/login")),
       Route("/strategies/new", Page("StrategyBuilderPage"), Navigate("/login")),
       Route("/strategies/:id/edit", Page("StrategyBuilderPage"), Navigate("/login")),
       Route("/backtests", Page("BacktestsPage"), Navigate("/login")),
       Route("/backtests/:id", Page("BacktestResultsPage"), Navigate("/login")),
       Route("/products", Page("ProductsPage"), Navigate("/login")),
       Route("/products/new", Page("ProductBuilderPage"), Navigate("/login")),
       Route("/products/:id/edit", Page("ProductBuilderPage"), Navigate("/login")),
       Route("/products/:id", Page("ProductDetailsPage"), Navigate("/login")),
       Route("/portfolios", Page("PortfoliosPage"), Navigate("/login")),
       Route("/portfolios/new", Page("PortfolioBuilderPage"), Navigate("/login")),
       Route("/portfolios/:id/edit", Page("PortfolioBuilderPage"), Navigate("/login")),
       Route("/portfolios/:id", Page("PortfolioDetailsPage"), Navigate("/login")),
       Route("/trade-desk", Page("TradeDeskPage"), Navigate("/login")),
       Route("/analytics", Page("AnalyticsPage"), Navigate("/login")),
       Route("/market-data", Page("MarketDataPage"), Navigate("/login")),
       Route("/", Navigate("/dashboard"), Navigate("/login")) >>

\* the locations tried: every route pattern and one that matches no route
Paths == {Routes[k].path : k \in DOMAIN Routes} \cup {"/nowhere"}

\* the element of the route that matches path
RouteElement(path, u) ==
    IF \E k \in DOMAIN Routes : Routes[k].path = path
    THEN LET r == Routes[CHOOSE k \in DOMAIN Routes : Routes[k].path = path]
         IN IF u # NoUser THEN r.ifUser ELSE r.ifAnon
    ELSE NoMatch

\* slip: the routes are rendered while the start sequence is still running
AppRoutesNoLoading(path, ld, u) == RouteElement(path, u)

\* function AppRoutes(): the spinner while loading, the routes afterwards
AppRoutes(path, ld, u) == IF ld THEN Spinner ELSE RouteElement(path, u)

ProtectedPages ==
    {"Dashboard", "StrategiesPage", "StrategyBuilderPage", "BacktestsPage",
     "BacktestResultsPage", "ProductsPage", "ProductBuilderPage",
     "ProductDetailsPage", "PortfoliosPage", "PortfolioBuilderPage",
     "PortfolioDetailsPage", "TradeDeskPage", "AnalyticsPage", "MarketDataPage"}

PublicPages == {"LoginPage", "RegisterPage"}

\* C27: route guarding follows the session state. While loading is true every
\* location renders the spinner only. Once loading is false a protected page
\* is rendered only with a user held and its location redirects to /login
\* without one; the login and register pages are rendered only without a
\* user and their locations redirect to /dashboard with one; a redirect leads
\* to a location that renders a page under the same session state.
C27_RouteGuarding ==
    \A path \in Paths :
        LET e == AppRoutes(path, loading, user)
        IN /\ loading => e = Spinner
           /\ ~loading =>
                /\ e # Spinner
                /\ (e.kind = "page" /\ e.name \in ProtectedPages) => user # NoUser
                /\ (e.kind = "page" /\ e.name \in PublicPages) => user = NoUser
                /\ e.kind = "page" => e.name \in ProtectedPages \cup PublicPages
                /\ (path \in {"/login", "/register"} /\ user # NoUser)
                      => e = Navigate("/dashboard")
                /\ (path \in {"/login", "/register"} /\ user = NoUser)
                      => (e.kind = "page" /\ e.name \in PublicPages)
                /\ (path \notin {"/login", "/register", "/", "/nowhere"} /\ user = NoUser)
                      => e = Navigate("/login")
                /\ (path \notin {"/login", "/register", "/", "/nowhere"} /\ user # NoUser)
                      => (e.kind = "page" /\ e.name \in ProtectedPages)
                /\ e.kind = "navigate"
                      => AppRoutes(e.name, loading, user).kind = "page"

\* a signed-in session: the trade desk is rendered, /login redirects
C27_Witness ==
    /\ ~loading /\ user # NoUser /\ storage # EmptyStorage
    /\ AppRoutes("/trade-desk", loading, user) = Page("TradeDeskPage")
    /\ AppRoutes("/login", loading, user) = Navigate("/dashboard")

-----------------------------------------------------------------------------
(* Polling *)

\* C28: on the results page the polling interval exists exactly while the
\* page is mounted and the status of the backtest held is RUNNING; a tick
\* happens only then and issues one getBacktest call; no other step of the
\* mounted page issues one, so that after a fetched status other than
\* RUNNING, or after unmounting, no poll request is issued.
C28_PollsExactlyWhileRunning ==
    /\ [](poll.interval <=> (poll.page = "results" /\ poll.status = "RUNNING"))
    /\ [][/\ poll'.did = "resultsTick" =>
                /\ poll.page = "results" /\ poll.status = "RUNNING"
                /\ poll'.inflight = poll.inflight + 1
                /\ poll'.fetched = {"backtest"}
          /\ (poll.page = "results" /\ poll'.inflight > poll.inflight) =>
                (poll'.did = "resultsTick" /\ poll.status = "RUNNING")
          /\ (poll.page = "results" /\ poll'.did = "resultsResponse"
              /\ poll'.status # "RUNNING") => ~poll'.interval
          /\ poll'.page # "results" => ~poll'.interval]_vars

\* the fetched status has left RUNNING while a poll request of an earlier
\* tick is still in flight: the interval is cleared
C28_Witness ==
    /\ poll.page = "results" /\ poll.did = "resultsResponse"
    /\ poll.status = "COMPLETED"
    /\ poll.inflight = 1
    /\ ~poll.interval

\* C29: on the list page a tick re-fetches the list iff the list held at the
\* time of the tick contains a backtest with status RUNNING.
C29_TickRefetchesRunningList ==
    [][(poll'.did = "listTick")
         => (("backtests" \in poll'.fetched)
               <=> (Len(RunningBacktests(backtests)) > 0))]_vars

\* C30: on the trade desk a tick re-fetches the market quotes, and re-fetches
\* the positions iff the tab active at the time of the tick is positions.
C30_TickFollowsActiveTab ==
    [][(poll'.did = "deskTick")
         => /\ "quotes" \in poll'.fetched
            /\ ("positions" \in poll'.fetched) <=> (poll.tab = "positions")]_vars


====
